---------------------------- MODULE Spec2Model ----------------------------
(***************************************************************************)
(* A model of aioplemmy: the identifier codec of _LemmyObject              *)
(* (aioplemmy/objects.py) and the request dispatcher LemmyHttp._fire_request*)
(* (plemmy/lemmyhttp.py).                                                  *)
(*                                                                         *)
(* Conventions.                                                            *)
(*  - A Python str that the code transforms (lower, upper, rstrip, ljust)  *)
(*    is a sequence of one-character strings, so that the transformation   *)
(*    is computed character by character.                                  *)
(*  - A Python value held in a dict is a record [t |-> type, v |-> repr],  *)
(*    repr being a sequence of characters.                                 *)
(*  - An unsigned identifier is held as two 16-bit limbs [hi, lo], its     *)
(*    value being hi * 65536 + lo: the model checker's integers are signed *)
(*    32-bit and cannot hold 2^32 - 1.  hi < 0 is a negative identifier    *)
(*    and hi > 65535 one that does not fit in 4 bytes.                     *)
(***************************************************************************)
EXTENDS Integers, Sequences, FiniteSets, TLC

VARIABLES
    \* ---- _LemmyObject codec (objects.py) ----
    id,         \* _LemmyObject.id of the object at hand
    cpc,        \* "new" | "encoded" | "decoded"
    b64,        \* result of id_b64_ : [ok, s, exc]
    decoded,    \* result of b64_to_id : [ok, n, exc]
    reencoded,  \* result of id_b64_ on an object whose id is the decoded value
    \* ---- LemmyHttp (lemmyhttp.py) ----
    json_deserialize,  \* the json_deserialize argument given to LemmyHttp.__init__
    key,        \* self.key
    de_json,    \* self.de_json
    closed,     \* self.client.closed (the aiohttp ClientSession)
    ncalls,     \* number of _fire_request invocations started so far
    pc,         \* "idle" | "awaiting" | "done" : position of the current invocation
    args,       \* arguments of the current invocation
    sent,       \* requests the current invocation has put on the wire
    resp,       \* response received by the current invocation
    outcome,    \* what the current invocation returned or raised
    adapter,    \* the public method that made the current invocation ("" : none)
    result,     \* what that public method returned or raised to the application
    flights,    \* concurrent invocations on one client: call id -> its frame
    caller_data,  \* the caller's mapping object, as the current invocation left it
    \* ---- _InstanceBound (objects.py) ----
    inst,       \* the record at hand: [local, actor_id]
    domain      \* what reading instance_domain_ of it gave

codecVars == <<id, cpc, b64, decoded, reencoded>>
httpVars  == <<json_deserialize, key, de_json, closed, ncalls, pc, args, sent, resp, outcome,
               adapter, result, flights, caller_data>>
instVars  == <<inst, domain>>
vars      == <<id, cpc, b64, decoded, reencoded,
               json_deserialize, key, de_json, closed, ncalls, pc, args, sent, resp,
               outcome, adapter, result, flights, caller_data, inst, domain>>

-----------------------------------------------------------------------------
(* Bounds *)

\* Number of _fire_request invocations made on one client.
MaxCalls == 2

\* The sampled identifiers have limbs within MaxDelta of a power of two.
MaxDelta == 1

\* Number of invocations of _fire_request interleaved on one client.
MaxInFlight == 2

\* Length of the longest short code handed to b64_to_id.
MaxCodeLen == 6

-----------------------------------------------------------------------------
(* Python strings as sequences of characters *)

Upper == <<"A","B","C","D","E","F","G","H","I","J","K","L","M",
           "N","O","P","Q","R","S","T","U","V","W","X","Y","Z">>
Lower == <<"a","b","c","d","e","f","g","h","i","j","k","l","m",
           "n","o","p","q","r","s","t","u","v","w","x","y","z">>

IndexIn(alphabet, c) == CHOOSE i \in 1..Len(alphabet) : alphabet[i] = c

\* str.lower() of one character
LowerChar(c) ==
    IF \E i \in 1..26 : Upper[i] = c THEN Lower[IndexIn(Upper, c)] ELSE c

\* str.upper() of one character
UpperChar(c) ==
    IF \E i \in 1..26 : Lower[i] = c THEN Upper[IndexIn(Lower, c)] ELSE c

StrLower(s) == [i \in 1..Len(s) |-> LowerChar(s[i])]
StrUpper(s) == [i \in 1..Len(s) |-> UpperChar(s[i])]

\* bytes.rstrip(chars): drop every trailing character that is in chars
RECURSIVE RStrip(_, _)
RStrip(s, chars) ==
    IF Len(s) > 0 /\ s[Len(s)] \in chars
    THEN RStrip(SubSeq(s, 1, Len(s) - 1), chars)
    ELSE s

\* str.rjust(width, fill): the fill put in front
RECURSIVE RJust(_, _, _)
RJust(s, width, fill) ==
    IF Len(s) >= width THEN s ELSE RJust(<<fill>> \o s, width, fill)

\* str.ljust(width, fill)
RECURSIVE LJust(_, _, _)
LJust(s, width, fill) ==
    IF Len(s) >= width THEN s ELSE LJust(Append(s, fill), width, fill)

-----------------------------------------------------------------------------
(* Identifier codec: _LemmyObject.id_b64_ and _LemmyObject.b64_to_id *)

\* The URL-safe base64 alphabet of base64.urlsafe_b64encode.
UrlSafeAlphabet ==
    Upper \o Lower \o <<"0","1","2","3","4","5","6","7","8","9","-","_">>

RECURSIVE Pow2(_)
Pow2(n) == IF n = 0 THEN 1 ELSE 2 * Pow2(n - 1)

\* An int held as two limbs; None is the dataclass default of _LemmyObject.id.
IntOf(hi, lo) == [t |-> "int", hi |-> hi, lo |-> lo]
NoneId        == [t |-> "NoneType", hi |-> 0, lo |-> 0]

Ok(x)      == [ok |-> TRUE, val |-> x, exc |-> ""]
Failed(e)  == [ok |-> FALSE, val |-> <<>>, exc |-> e]

\* int.to_bytes(x, length=4, byteorder='big', signed=False)
ToBytesBE4(x) ==
    IF x.t # "int" THEN Failed("TypeError")
    ELSE IF x.hi < 0 \/ x.hi > 65535 THEN Failed("OverflowError")
    ELSE Ok(<<x.hi \div 256, x.hi % 256, x.lo \div 256, x.lo % 256>>)

\* The conversion keeping the low 32 bits of an int that does not fit.
ToBytesLE4Wrap(x) ==
    IF x.t # "int" THEN Failed("TypeError")
    ELSE Ok(<<x.lo % 256, x.lo \div 256, (x.hi % 65536) % 256, (x.hi % 65536) \div 256>>)

\* int.to_bytes(x, length=4, byteorder='little', signed=False)
ToBytesLE4(x) ==
    IF x.t # "int" THEN Failed("TypeError")
    ELSE IF x.hi < 0 \/ x.hi > 65535 THEN Failed("OverflowError")
    ELSE Ok(<<x.lo % 256, x.lo \div 256, x.hi % 256, x.hi \div 256>>)

\* int.from_bytes(bytes, byteorder='little', signed=False)
FromBytesLE(bytes) ==
    LET n == Len(bytes)
        byte(i) == IF i <= n THEN bytes[i] ELSE 0
        RECURSIVE High(_)
        High(i) == IF i > n THEN 0 ELSE bytes[i] + 256 * High(i + 1)
    IN IntOf(High(3), byte(1) + 256 * byte(2))

\* int.from_bytes(bytes, byteorder='big', signed=False)
FromBytesBE(bytes) ==
    FromBytesLE([i \in 1..Len(bytes) |-> bytes[Len(bytes) + 1 - i]])

\* base64.urlsafe_b64encode(bytes): three bytes give four characters; a final
\* group of one or two bytes is padded with "=".
RECURSIVE B64Encode(_)
B64Encode(bytes) ==
    LET ch(n) == UrlSafeAlphabet[n + 1]
        n == Len(bytes)
    IN IF n = 0 THEN <<>>
       ELSE IF n = 1 THEN
            << ch(bytes[1] \div 4), ch((bytes[1] % 4) * 16), "=", "=" >>
       ELSE IF n = 2 THEN
            << ch(bytes[1] \div 4),
               ch((bytes[1] % 4) * 16 + bytes[2] \div 16),
               ch((bytes[2] % 16) * 4), "=" >>
       ELSE << ch(bytes[1] \div 4),
               ch((bytes[1] % 4) * 16 + bytes[2] \div 16),
               ch((bytes[2] % 16) * 4 + bytes[3] \div 64),
               ch(bytes[3] % 64) >> \o B64Encode(SubSeq(bytes, 4, n))

\* The value of a character for base64.urlsafe_b64decode: the URL-safe
\* alphabet, and also "+" and "/" (the decoder translates "-" and "_" to them
\* and then decodes the standard alphabet).  64 is "not a base64 character".
B64Value(c) ==
    IF \E i \in 1..64 : UrlSafeAlphabet[i] = c THEN IndexIn(UrlSafeAlphabet, c) - 1
    ELSE IF c = "+" THEN 62
    ELSE IF c = "/" THEN 63
    ELSE 64

\* binascii.a2b_base64 in its default, non-strict mode: characters outside
\* the alphabet are skipped, a pad sequence that completes a quad ends the
\* decoding, and input ending inside a quad is an error.
RECURSIVE A2bBase64(_, _, _, _, _, _)
A2bBase64(s, i, quad_pos, leftchar, pads, out) ==
    IF i > Len(s) THEN
        IF quad_pos # 0 THEN Failed("binascii.Error") ELSE Ok(out)
    ELSE IF s[i] = "=" THEN
        IF quad_pos >= 2 /\ quad_pos + pads + 1 >= 4
        THEN Ok(out)
        ELSE A2bBase64(s, i + 1, quad_pos, leftchar,
                       IF quad_pos >= 2 THEN pads + 1 ELSE pads, out)
    ELSE LET c == B64Value(s[i]) IN
        IF c >= 64 THEN A2bBase64(s, i + 1, quad_pos, leftchar, pads, out)
        ELSE IF quad_pos = 0 THEN A2bBase64(s, i + 1, 1, c, 0, out)
        ELSE IF quad_pos = 1 THEN
             A2bBase64(s, i + 1, 2, c % 16, 0, Append(out, leftchar * 4 + c \div 16))
        ELSE IF quad_pos = 2 THEN
             A2bBase64(s, i + 1, 3, c % 4, 0, Append(out, leftchar * 16 + c \div 4))
        ELSE A2bBase64(s, i + 1, 0, 0, 0, Append(out, leftchar * 64 + c))

\* Characters outside ASCII, each written by its code point.
NonAscii == {"U+00E9"}

\* base64.urlsafe_b64decode(s) of a str: the str is first encoded to ASCII
\* bytes, which raises ValueError on a character outside ASCII.
B64Decode(s) ==
    IF \E i \in 1..Len(s) : s[i] \in NonAscii THEN Failed("ValueError")
    ELSE A2bBase64(s, 1, 0, 0, 0, <<>>)

\* id_b64_ stripping the padding only.
IdB64StripPad(x) ==
    LET bytes == ToBytesLE4(x) IN
    IF ~bytes.ok THEN bytes
    ELSE Ok(RStrip(B64Encode(bytes.val), {"="}))

\* _LemmyObject.id_b64_
IdB64(x) ==
    LET bytes == ToBytesLE4(x) IN
    IF ~bytes.ok THEN bytes
    ELSE Ok(RStrip(B64Encode(bytes.val), {"=", "A"}))

\* b64_to_id reading the bytes in the other byte order.
B64ToIdBigEndian(id_) ==
    LET padded == LJust(id_, 6, "A") \o <<"=", "=">>
        bytes  == B64Decode(padded)
    IN IF ~bytes.ok THEN bytes ELSE Ok(FromBytesBE(bytes.val))

\* b64_to_id without the ljust.
B64ToIdNoPad(id_) ==
    LET padded == id_ \o <<"=", "=">>
        bytes  == B64Decode(padded)
    IN IF ~bytes.ok THEN bytes ELSE Ok(FromBytesLE(bytes.val))

\* _LemmyObject.b64_to_id
B64ToId(id_) ==
    LET padded == LJust(id_, 6, "A") \o <<"=", "=">>
        bytes  == B64Decode(padded)
    IN IF ~bytes.ok THEN bytes ELSE Ok(FromBytesLE(bytes.val))

NoResult == Failed("")

\* The identifiers sampled: every limb is within MaxDelta of 0 or of a power
\* of two, which puts a set bit, and a run of set bits, at every position of
\* every base64 character.
LimbSamples ==
    {0} \cup ({Pow2(k) + d : k \in 0..16, d \in (0 - MaxDelta)..MaxDelta}
                \cap (0..65535))

Ids == {IntOf(hi, lo) : hi \in LimbSamples \cup {-1, 65536}, lo \in LimbSamples}
         \cup {NoneId}

InRange(x) == x.t = "int" /\ x.hi \in 0..65535 /\ x.lo \in 0..65535

CodecInit ==
    /\ id \in Ids
    /\ cpc = "new"
    /\ b64 = NoResult
    /\ decoded = NoResult
    /\ reencoded = NoResult

\* Reading the property id_b64_ of the object.
Encode ==
    /\ cpc = "new"
    /\ b64' = IdB64(id)
    /\ cpc' = "encoded"
    /\ UNCHANGED <<id, decoded, reencoded>>

\* Passing the short code back to b64_to_id.
Decode ==
    /\ cpc = "encoded"
    /\ b64.ok
    /\ decoded' = B64ToId(b64.val)
    /\ cpc' = "decoded"
    /\ UNCHANGED <<id, b64, reencoded>>

\* The characters of the short codes sampled: value 0, a value whose low
\* four bits are zero, the value 63, an ASCII character outside the alphabet,
\* a character of the standard alphabet only, and one outside ASCII.
CodeChars == {"A", "Q", "_", "!", "+", "U+00E9"}

RECURSIVE StringsUpTo(_)
StringsUpTo(n) ==
    IF n = 0 THEN {<<>>}
    ELSE LET shorter == StringsUpTo(n - 1)
         IN shorter \cup {Append(s, c) : s \in {t \in shorter : Len(t) = n - 1},
                                           c \in CodeChars}

\* The short codes handed to b64_to_id.
Codes == StringsUpTo(MaxCodeLen)

\* A short code arrives from outside (a URL, a message).
CodeInit ==
    /\ id = NoneId
    /\ b64 \in {Ok(s) : s \in Codes}
    /\ cpc = "encoded"
    /\ decoded = NoResult
    /\ reencoded = NoResult

\* An object is built with the decoded identifier and its id_b64_ is read.
ReEncode ==
    /\ cpc = "decoded"
    /\ decoded.ok
    /\ reencoded' = IdB64(decoded.val)
    /\ cpc' = "reencoded"
    /\ UNCHANGED <<id, b64, decoded>>

-----------------------------------------------------------------------------
(* Python values carried by the dispatcher *)

PyNone      == [t |-> "NoneType", v |-> <<>>]
PyStr(s)    == [t |-> "str", v |-> s]
PyInt(ds)   == [t |-> "int", v |-> ds]
PyObject(n) == [t |-> "object", v |-> n]
PyFalse     == [t |-> "bool", v |-> <<"F","a","l","s","e">>]
PyTrue      == [t |-> "bool", v |-> <<"T","r","u","e">>]
PyList(xs)  == [t |-> "list", v |-> xs]

\* bool(v) of a value held in a dict
ValueTruthy(v) ==
    CASE v.t = "NoneType" -> FALSE
      [] v.t = "bool"     -> v = PyTrue
      [] v.t = "int"      -> v.v # <<"0">>
      [] v.t \in {"str", "list"} -> v.v # <<>>
      [] OTHER -> TRUE

\* A dict is a function from its keys to Python values.
EmptyDict == <<>>
DictOf(items) == [t |-> "dict", items |-> items]
\* data=None
NoData == [t |-> "NoneType", items |-> EmptyDict]
\* data left out: the parameter's default in the signature of _fire_request is
\* the object typing.Optional[dict], which is not None and has no items().
DefaultData == [t |-> "typing.Optional", items |-> EmptyDict]

PyBool(b)           == [t |-> "bool", b |-> b]
NoFlag              == [t |-> "NoneType", b |-> FALSE]
\* form_in_params left out: the default is the object typing.Optional[bool].
DefaultFormInParams == [t |-> "typing.Optional", b |-> FALSE]

\* bool(x) as "if x:" computes it
Truthy(x) == \/ x.t = "bool" /\ x.b
             \/ x.t = "typing.Optional"

API_VERSION == "v3"

GET   == <<"G","E","T">>
POST  == <<"P","O","S","T">>
PUT   == <<"P","U","T">>
get   == <<"g","e","t">>
Get   == <<"G","e","t">>

-----------------------------------------------------------------------------
(* _InstanceBound.instance_domain_ *)

\* The index of the first character of s from position i on that is in
\* chars, Len(s) + 1 if there is none.
RECURSIVE FindFirst(_, _, _)
FindFirst(s, chars, i) ==
    IF i > Len(s) THEN Len(s) + 1
    ELSE IF s[i] \in chars THEN i
    ELSE FindFirst(s, chars, i + 1)

\* The index of the last character of s that is in chars, 0 if there is none.
RECURSIVE FindLast(_, _, _)
FindLast(s, chars, i) ==
    IF i < 1 THEN 0
    ELSE IF s[i] \in chars THEN i
    ELSE FindLast(s, chars, i - 1)

Letters == {Upper[i] : i \in 1..26} \cup {Lower[i] : i \in 1..26}
Digits  == {"0","1","2","3","4","5","6","7","8","9"}

\* urllib.parse.urlsplit(url).netloc: a leading "scheme:" is taken off when
\* the scheme starts with a letter and is made of letters, digits, "+", "-"
\* and "."; what follows a leading "//" up to the first "/", "?" or "#" is
\* the network location.
UrlNetloc(url) ==
    LET colon == FindFirst(url, {":"}, 1)
        has_scheme ==
            /\ colon > 1 /\ colon <= Len(url)
            /\ url[1] \in Letters
            /\ \A i \in 1..(colon - 1) : url[i] \in Letters \cup Digits \cup {"+", "-", "."}
        start == IF has_scheme THEN colon + 1 ELSE 1
    IN IF start + 1 <= Len(url) /\ url[start] = "/" /\ url[start + 1] = "/"
       THEN SubSeq(url, start + 2, FindFirst(url, {"/", "?", "#"}, start + 2) - 1)
       ELSE <<>>

\* SplitResult.hostname: the part of the network location after the last
\* "@", up to the first ":" (or between "[" and "]"), in lower case; None
\* when it is empty.
UrlHostname(netloc) ==
    LET hostinfo == SubSeq(netloc, FindLast(netloc, {"@"}, Len(netloc)) + 1, Len(netloc))
        open_br  == FindFirst(hostinfo, {"["}, 1)
        hostname ==
            IF open_br <= Len(hostinfo)
            THEN SubSeq(hostinfo, open_br + 1, FindFirst(hostinfo, {"]"}, open_br + 1) - 1)
            ELSE SubSeq(hostinfo, 1, FindFirst(hostinfo, {":"}, 1) - 1)
    IN IF hostname = <<>> THEN PyNone ELSE PyStr(StrLower(hostname))

\* urlparse(actor_id).hostname; urlparse(None) parses the empty URL.
ParsedHostname(actor_id) ==
    IF actor_id.t = "NoneType" THEN PyNone ELSE UrlHostname(UrlNetloc(actor_id.v))

\* instance_domain_ parsing the actor id whatever local says.
InstanceDomainAlwaysParsed(r) == ParsedHostname(r.actor_id)

\* _InstanceBound.instance_domain_
InstanceDomain(r) ==
    IF ValueTruthy(r.local) THEN PyNone ELSE ParsedHostname(r.actor_id)

\* The pieces the sampled actor ids are written from.
UrlPrefixes  == {<<"h", "t", "t", "p", "s", ":", "/", "/">>, <<"/", "/">>, <<>>}
UrlUserinfos == {<<>>, <<"u", "@">>}
UrlHosts     == {<<"l", "e", "m", "m", "y", ".", "m", "l">>, <<"A", "b", ".", "C">>, <<>>}
UrlPorts     == {<<>>, <<":", "8", "5", "3", "6">>}
UrlTails     == {<<>>, <<"/", "u", "/", "b", "o", "b">>, <<"?", "x">>}
UrlParts ==
    [prefix : UrlPrefixes, userinfo : UrlUserinfos, host : UrlHosts,
     port : UrlPorts, tail : UrlTails]
UrlOf(p) == PyStr(p.prefix \o p.userinfo \o p.host \o p.port \o p.tail)
NoParts ==
    [prefix |-> <<>>, userinfo |-> <<>>, host |-> <<>>, port |-> <<>>, tail |-> <<>>]

\* The records sampled: local True, False or left at its default None; the
\* actor id a URL or left at its default None.
Insts ==
    {[local |-> l, actor_id |-> UrlOf(p), parts |-> p] :
        l \in {PyTrue, PyFalse, PyNone}, p \in UrlParts}
    \cup {[local |-> l, actor_id |-> PyNone, parts |-> NoParts] :
        l \in {PyTrue, PyFalse, PyNone}}

\* No record at hand; instance_domain_ not read.
NoInst  == [local |-> PyNone, actor_id |-> PyNone, parts |-> NoParts]
NotRead == [read |-> FALSE, val |-> PyNone]

\* Reading the property instance_domain_ of the record.
ReadDomain ==
    /\ ~domain.read
    /\ domain' = [read |-> TRUE, val |-> InstanceDomain(inst)]
    /\ UNCHANGED inst

-----------------------------------------------------------------------------
(* JSON bodies and the deserializers *)

\* The response bodies the server sends, as raw text (none of them empty).
BodyNotFound  == "{\"error\": \"not_found\"}"
BodyBanned    == "{\"error\": \"BANNED\"}"
BodyJwt       == "{\"jwt\": \"abc123\"}"
BodyErrorCode == "{\"error\": 404}"
BodyList      == "[]"
BodyHtml      == "<html>Bad Gateway</html>"

Bodies == {BodyNotFound, BodyBanned, BodyJwt, BodyErrorCode, BodyList, BodyHtml}

JsonDict(loader, items) == [t |-> "dict", items |-> items, loader |-> loader]
JsonList(loader)        == [t |-> "list", items |-> EmptyDict, loader |-> loader]
NoJson                  == [t |-> "NoneType", items |-> EmptyDict, loader |-> ""]

\* What a JSON parser makes of each body.
Parse(loader, text) ==
    CASE text = BodyNotFound ->
            Ok(JsonDict(loader, [k \in {"error"} |-> PyStr(<<"n","o","t","_","f","o","u","n","d">>)]))
      [] text = BodyBanned ->
            Ok(JsonDict(loader, [k \in {"error"} |-> PyStr(<<"B","A","N","N","E","D">>)]))
      [] text = BodyJwt ->
            Ok(JsonDict(loader, [k \in {"jwt"} |-> PyStr(<<"a","b","c","1","2","3">>)]))
      [] text = BodyErrorCode ->
            Ok(JsonDict(loader, [k \in {"error"} |-> PyInt(<<"4","0","4">>)]))
      [] text = BodyList -> Ok(JsonList(loader))
      [] OTHER -> Failed("JSONDecodeError")

\* The deserializers a client can hold: orjson.loads, and a function of the
\* embedding application (here one that builds its own objects and raises
\* ValueError on malformed text).
OrjsonLoads == "orjson.loads"
CustomLoads == "custom_loads"

\* A deserializer whose failures come out as LemmyError.
CallLoadsAsLemmyError(f, text) ==
    IF Parse(f, text).ok THEN Parse(f, text) ELSE Failed("LemmyError")

CallLoads(f, text) ==
    IF f = OrjsonLoads THEN Parse(OrjsonLoads, text)
    ELSE LET r == Parse(CustomLoads, text) IN
         IF r.ok THEN r ELSE Failed("ValueError")

\* LemmyHttp.__init__: self.de_json
InitDeJson(deserialize) ==
    IF deserialize # "None" THEN deserialize ELSE OrjsonLoads

\* resp.json() called without loads=: aiohttp's default decoder is used.
RespJsonDefaultLoads(r, loads) ==
    IF r.content_type # "application/json" THEN Failed("ContentTypeError")
    ELSE Parse(OrjsonLoads, r.body)

\* aiohttp ClientResponse.json(loads=...): raises ContentTypeError unless the
\* response's content type is a JSON one, else applies loads to the body.
RespJson(r, loads) ==
    IF r.content_type # "application/json" THEN Failed("ContentTypeError")
    ELSE CallLoads(loads, r.body)

\* obj[k]
GetItem(obj, k) ==
    IF obj.t # "dict" THEN Failed("TypeError")
    ELSE IF k \notin DOMAIN obj.items THEN Failed("KeyError")
    ELSE Ok(obj.items[k])

\* x.upper()
CallUpper(x) ==
    IF x.t # "str" THEN Failed("AttributeError") ELSE Ok(StrUpper(x.v))

-----------------------------------------------------------------------------
(* LemmyError and the outcome of an invocation *)

NoMessage == [template |-> "", status |-> 0, error |-> <<>>, method |-> <<>>, route |-> ""]

\* f"[{resp.status}] Lemmy API returned {error} exception"
StructuredMessage(status, error) ==
    [template |-> "[{resp.status}] Lemmy API returned {error} exception",
     status |-> status, error |-> error, method |-> <<>>, route |-> ""]

\* The generic message without the route.
GenericMessageNoRoute(status, method, route) ==
    [template |-> "[{resp.status}] Generic error encountered while trying to {method}",
     status |-> status, error |-> <<>>, method |-> method, route |-> ""]

\* f"[{resp.status}] Generic error encountered while trying to {method} {route}"
GenericMessage(status, method, route) ==
    [template |-> "[{resp.status}] Generic error encountered while trying to {method} {route}",
     status |-> status, error |-> <<>>, method |-> method, route |-> route]

Return(value) ==
    [kind |-> "return", exc |-> "", value |-> value, message |-> NoMessage, error |-> PyNone]

\* An exception other than LemmyError leaving the call.
Raise(exc) ==
    [kind |-> "raise", exc |-> exc, value |-> NoJson, message |-> NoMessage, error |-> PyNone]

\* LemmyError keeping the client's key as its error field.
LemmyErrorCarryingKey(message, error) ==
    [kind |-> "raise", exc |-> "LemmyError", value |-> NoJson, message |-> message, error |-> key]

\* raise LemmyError(message, error): LemmyError.__init__ keeps error, None by default
LemmyError(message, error) ==
    [kind |-> "raise", exc |-> "LemmyError", value |-> NoJson, message |-> message, error |-> error]

NoOutcome == [kind |-> "", exc |-> "", value |-> NoJson, message |-> NoMessage, error |-> PyNone]

-----------------------------------------------------------------------------
(* LemmyHttp._fire_request *)

\* The default computed by comparing the method with "GET".
ResolveFormInParamsUpperCase(form_in_params, method) ==
    IF form_in_params.t = "NoneType" THEN PyBool(method = GET) ELSE form_in_params

\* if form_in_params is None: form_in_params = method == "get"
ResolveFormInParams(form_in_params, method) ==
    IF form_in_params.t = "NoneType" THEN PyBool(method = get) ELSE form_in_params

\* The filter without its test on the key "self".
FilterItemsKeepSelf(items) ==
    [k \in {x \in DOMAIN items : items[x].t # "NoneType"} |-> items[k]]

\* The filter written with "if v" in place of "if v is not None".
FilterItemsTruthy(items) ==
    [k \in {x \in DOMAIN items : ValueTruthy(items[x]) /\ x # "self"} |-> items[k]]

\* {k: v for k, v in data.items() if v is not None and k != "self"}
FilterItems(items) ==
    [k \in {x \in DOMAIN items : items[x].t # "NoneType" /\ x # "self"} |-> items[k]]

\* if data is not None: form = {...} else: form = {}
BuildForm(data) ==
    IF data.t # "NoneType"
    THEN IF data.t = "dict" THEN Ok(FilterItems(data.items))
         ELSE Failed("AttributeError")
    ELSE Ok(EmptyDict)

\* The injection written as form.setdefault("auth", self.key).
InjectAuthSetDefault(form, self_key) ==
    IF self_key.t # "NoneType" /\ "auth" \notin DOMAIN form
    THEN [k \in DOMAIN form \cup {"auth"} |-> IF k = "auth" THEN self_key ELSE form[k]]
    ELSE form

\* The injection without its test: form["auth"] = self.key.
InjectAuthAlways(form, self_key) ==
    [k \in DOMAIN form \cup {"auth"} |-> IF k = "auth" THEN self_key ELSE form[k]]

\* if self.key is not None: form["auth"] = self.key
InjectAuth(form, self_key) ==
    IF self_key.t # "NoneType"
    THEN [k \in DOMAIN form \cup {"auth"} |-> IF k = "auth" THEN self_key ELSE form[k]]
    ELSE form

\* The request made to the bare route.
RequestBareRoute(method, route, form_in_params, form) ==
    [verb |-> method,
     url  |-> <<"", "", route>>,
     mode |-> IF Truthy(form_in_params) THEN "params" ELSE "json",
     form |-> form]

\* getattr(http, method)(f"/api/{API_VERSION}{route}", params=form) or (..., json=form)
Request(method, route, form_in_params, form) ==
    [verb |-> method,
     url  |-> <<"/api/", API_VERSION, route>>,
     mode |-> IF Truthy(form_in_params) THEN "params" ELSE "json",
     form |-> form]

\* The status test taking every 2xx status for a success.
IsErrorStatusNot2xx(status) == status < 200 \/ status > 299

\* if resp.status != 200
IsErrorStatus(status) == status # 200

\* The body of "async with" after the response has arrived.
HandleResponse(self_de_json, method, route, r) ==
    IF IsErrorStatus(r.status) THEN
        IF r.content_type = "application/json" THEN
            LET error_resp == RespJson(r, self_de_json) IN
            IF ~error_resp.ok THEN Raise(error_resp.exc)
            ELSE LET item == GetItem(error_resp.val, "error") IN
                 IF ~item.ok THEN Raise(item.exc)
                 ELSE LET error == CallUpper(item.val) IN
                      IF ~error.ok THEN Raise(error.exc)
                      ELSE LemmyError(StructuredMessage(r.status, error.val),
                                      PyStr(error.val))
        ELSE LemmyError(GenericMessage(r.status, method, route), PyNone)
    ELSE LET value == RespJson(r, self_de_json) IN
         IF ~value.ok THEN Raise(value.exc) ELSE Return(value.val)

\* The arguments of one invocation.
Args(route, method, data, form_in_params) ==
    [route |-> route, method |-> method, data |-> data, form_in_params |-> form_in_params]

NoArgs == Args("", <<>>, NoData, NoFlag)

NoResp == [status |-> 0, content_type |-> "", body |-> ""]

\* No concurrent invocation is being followed.
NoFlights == <<>>

\* _fire_request from its first line to the first suspension: the request is
\* on the wire, or an exception has left the call.  Once the ClientSession is
\* closed its request methods raise RuntimeError("Session is closed").
FireRequestStart(self_key, session_closed, a) ==
    LET method == StrLower(a.method)
        form_in_params == ResolveFormInParams(a.form_in_params, method)
        built == BuildForm(a.data)
    IN IF ~built.ok THEN
            \* raised before "async with": the session is not touched
            [pc |-> "done", sent |-> <<>>, outcome |-> Raise(built.exc),
             closed |-> session_closed]
       ELSE IF session_closed THEN
            [pc |-> "done", sent |-> <<>>, outcome |-> Raise("RuntimeError"),
             closed |-> TRUE]
       ELSE [pc |-> "awaiting",
             sent |-> <<Request(method, a.route, form_in_params,
                                InjectAuth(built.val, self_key))>>,
             outcome |-> NoOutcome,
             closed |-> session_closed]

\* Filtering and injection done on the caller's own mapping (form = data).
CallerDataInPlace(data, self_key) ==
    IF data.t = "dict" THEN DictOf(InjectAuth(FilterItems(data.items), self_key))
    ELSE data

\* The caller's mapping once the form is built: the comprehension makes a new
\* dict, and form["auth"] is assigned on that dict.
CallerData(data, self_key) == data

\* "async with self.client as http" left, by return or by exception:
\* ClientSession.__aexit__ closes the session.
SessionAfterExit(session_closed) == TRUE

-----------------------------------------------------------------------------
(* The handlers and the login adapter *)

\* _post_handler(endpoint, data): _fire_request(endpoint, "POST", data, False)
PostHandler(endpoint, data) == Args(endpoint, POST, data, PyBool(FALSE))

\* _put_handler(endpoint, data): _fire_request(endpoint, "PUT", data, False)
PutHandler(endpoint, data) == Args(endpoint, PUT, data, PyBool(FALSE))

\* _get_handler passing False for form_in_params.
GetHandlerJson(endpoint, data) == Args(endpoint, GET, data, PyBool(FALSE))

\* _get_handler(endpoint, data): _fire_request(endpoint, "GET", data, True)
GetHandler(endpoint, data) == Args(endpoint, GET, data, PyBool(TRUE))

Self == PyObject(<<"s","e","l","f">>)

\* locals() inside delete_post(self, deleted=False, post_id=1)
DeletePostLocals ==
    DictOf([k \in {"self", "deleted", "post_id"} |->
              CASE k = "self" -> Self
                [] k = "deleted" -> PyFalse
                [] OTHER -> PyInt(<<"1">>)])

\* locals() inside like_post(self, post_id=1, score=0)
LikePostLocals ==
    DictOf([k \in {"self", "post_id", "score"} |->
              CASE k = "self" -> Self
                [] k = "score" -> PyInt(<<"0">>)
                [] OTHER -> PyInt(<<"1">>)])

\* locals() inside search(self, q=""), the optional parameters left at None
\* (two of the eight kept)
SearchLocals ==
    DictOf([k \in {"self", "q", "community_id", "limit"} |->
              CASE k = "self" -> Self
                [] k = "q" -> PyStr(<<>>)
                [] OTHER -> PyNone])

\* locals() inside save_user_settings(self, discussion_languages=[]), the
\* other parameters left at None (one of them kept)
SaveUserSettingsLocals ==
    DictOf([k \in {"self", "discussion_languages", "bio"} |->
              CASE k = "self" -> Self
                [] k = "discussion_languages" -> PyList(<<>>)
                [] OTHER -> PyNone])

\* {"token": token} built by verify_email(token="tok")
VerifyEmailData == DictOf([k \in {"token"} |-> PyStr(<<"t","o","k">>)])

\* The public methods followed, besides login.
Adapters ==
    {"get_site", "leave_admin", "delete_post", "like_post", "search",
     "save_user_settings", "verify_email"}

\* The call each of them makes; a handler called with the endpoint alone
\* takes data=None.
AdapterArgs(name) ==
    CASE name = "get_site"     -> GetHandler("/site", NoData)
      [] name = "leave_admin"  -> PostHandler("/user/leave_admin", NoData)
      [] name = "delete_post"  -> PostHandler("/post/delete", DeletePostLocals)
      [] name = "like_post"    -> PostHandler("/post/like", LikePostLocals)
      [] name = "search"       -> GetHandler("/search", SearchLocals)
      [] name = "save_user_settings" ->
            PutHandler("/user/save_user_settings", SaveUserSettingsLocals)
      [] OTHER                 -> PostHandler("/user/verify_email", VerifyEmailData)

\* locals() inside login(self, username_or_email, password)
LoginLocals ==
    DictOf([k \in {"self", "username_or_email", "password"} |->
              IF k = "self" THEN PyObject(<<"s","e","l","f">>)
              ELSE IF k = "password" THEN PyStr(<<"p","w">>)
              ELSE PyStr(<<"b","o","b">>)])

\* login: resp = await self._post_handler("/user/login", locals())
LoginArgs == PostHandler("/user/login", LoginLocals)

\* login handing back the whole response object.
LoginContinueWhole(self_key, o) == [result |-> o, key |-> self_key]

\* login storing the token it obtained in self.key.
LoginContinueStoresKey(self_key, o) ==
    IF o.kind # "return" THEN [result |-> o, key |-> self_key]
    ELSE LET jwt == GetItem(o.value, "jwt") IN
         IF ~jwt.ok THEN [result |-> Raise(jwt.exc), key |-> self_key]
         ELSE [result |-> Return(jwt.val), key |-> jwt.val]

\* login after _post_handler has returned or raised o: return resp["jwt"].
\* The client's key is not assigned.
LoginContinue(self_key, o) ==
    IF o.kind # "return" THEN [result |-> o, key |-> self_key]
    ELSE LET jwt == GetItem(o.value, "jwt") IN
         IF ~jwt.ok THEN [result |-> Raise(jwt.exc), key |-> self_key]
         ELSE [result |-> Return(jwt.val), key |-> self_key]

\* What the public method that made the invocation hands to the application,
\* and the client's key afterwards: every method but login returns what
\* _fire_request returned.
AdapterContinue(name, self_key, o) ==
    IF name = "login" THEN LoginContinue(self_key, o)
    ELSE [result |-> o, key |-> self_key]

-----------------------------------------------------------------------------
(* The client and its environment *)

Routes  == {"/user/login", "/post"}
Methods == {GET, POST, PUT, get, Get}
Flags   == {NoFlag, PyBool(TRUE), PyBool(FALSE), DefaultFormInParams}

\* The caller's mappings: "a" absent, None or 1; "self" absent or the client
\* (what locals() collects); "auth" absent, None or a caller's string.
Absent == [t |-> "absent", v |-> <<>>]
DictChoices ==
    { [a |-> x, self |-> y, auth |-> z] :
        x \in {Absent, PyNone, PyInt(<<"1">>)},
        y \in {Absent, PyObject(<<"s","e","l","f">>)},
        z \in {Absent, PyNone, PyStr(<<"c","a","l","l","e","r">>)} }
DictFrom(c) ==
    DictOf([k \in {x \in {"a", "self", "auth"} : c[x].t # "absent"} |-> c[k]])
Datas == {DictFrom(c) : c \in DictChoices} \cup {NoData, DefaultData}

Keys          == {PyNone, PyStr(<<"t","o","k","e","n">>)}
Deserializers == {"None", CustomLoads}

Statuses     == {200, 201, 404, 500}
ContentTypes == {"application/json", "text/html"}

\* LemmyHttp.__init__ on an open ClientSession.
HttpInit ==
    /\ key \in Keys
    /\ json_deserialize \in Deserializers
    /\ de_json = InitDeJson(json_deserialize)
    /\ closed = FALSE
    /\ ncalls = 0
    /\ pc = "idle"
    /\ args = NoArgs
    /\ sent = <<>>
    /\ resp = NoResp
    /\ outcome = NoOutcome
    /\ adapter = ""
    /\ result = NoOutcome
    /\ caller_data = NoData

\* The invocation of a public method begins: _fire_request runs to its first
\* suspension, or to the exception that ends it.
Invoke(name, a) ==
    LET s == FireRequestStart(key, closed, a)
        after == AdapterContinue(name, key, s.outcome)
    IN /\ args' = a
       /\ adapter' = name
       /\ pc' = s.pc
       /\ sent' = s.sent
       /\ outcome' = s.outcome
       /\ closed' = s.closed
       /\ result' = IF s.pc = "done" THEN after.result ELSE NoOutcome
       /\ key' = IF s.pc = "done" THEN after.key ELSE key
       /\ caller_data' = CallerData(a.data, key)

\* A caller invokes _fire_request; it runs to its first suspension.
Call ==
    /\ pc = "idle"
    /\ ncalls < MaxCalls
    /\ \E route \in Routes, method \in Methods, data \in Datas, form_in_params \in Flags :
        Invoke("", Args(route, method, data, form_in_params))
    /\ ncalls' = ncalls + 1
    /\ resp' = NoResp
    /\ UNCHANGED <<json_deserialize, de_json>>

\* The application calls login(username_or_email, password).
CallLogin ==
    /\ pc = "idle"
    /\ ncalls < MaxCalls
    /\ Invoke("login", LoginArgs)
    /\ ncalls' = ncalls + 1
    /\ resp' = NoResp
    /\ UNCHANGED <<json_deserialize, de_json>>

\* The application calls one of the other public methods.
CallAdapter ==
    /\ pc = "idle"
    /\ ncalls < MaxCalls
    /\ \E name \in Adapters : Invoke(name, AdapterArgs(name))
    /\ ncalls' = ncalls + 1
    /\ resp' = NoResp
    /\ UNCHANGED <<json_deserialize, de_json>>

\* The invocation ends with outcome o: the "async with" block is left and
\* the public method that made the invocation continues to its own end.
Complete(o) ==
    LET after == AdapterContinue(adapter, key, o)
    IN /\ outcome' = o
       /\ result' = after.result
       /\ key' = after.key
       /\ closed' = SessionAfterExit(closed)
       /\ pc' = "done"

\* The server's response arrives; the invocation runs to its end.
Respond ==
    /\ pc = "awaiting"
    /\ \E status \in Statuses, content_type \in ContentTypes, body \in Bodies :
        LET r == [status |-> status, content_type |-> content_type, body |-> body]
        IN /\ resp' = r
           /\ Complete(HandleResponse(de_json, StrLower(args.method), args.route, r))
    /\ UNCHANGED <<json_deserialize, de_json, ncalls, args, sent, adapter, caller_data>>

\* The connection fails before any response: aiohttp raises ClientConnectionError.
ConnectionFails ==
    /\ pc = "awaiting"
    /\ Complete(Raise("ClientConnectionError"))
    /\ UNCHANGED <<json_deserialize, de_json, ncalls, args, sent, resp, adapter,
                   caller_data>>

\* The caller has taken what the invocation returned or raised; the
\* coroutine's frame is gone.
Finish ==
    /\ pc = "done"
    /\ pc' = "idle"
    /\ args' = NoArgs
    /\ sent' = <<>>
    /\ resp' = NoResp
    /\ outcome' = NoOutcome
    /\ adapter' = ""
    /\ result' = NoOutcome
    /\ caller_data' = NoData
    /\ UNCHANGED <<json_deserialize, key, de_json, closed, ncalls>>

-----------------------------------------------------------------------------
(* Concurrent invocations on one client *)

Flights == 1..MaxInFlight

\* The frame of an invocation that has not begun.
IdleFlight ==
    [pc |-> "idle", args |-> NoArgs, sent |-> <<>>, resp |-> NoResp,
     outcome |-> NoOutcome, lost |-> FALSE]

ConcMethods      == {GET, POST}
ConcStatuses     == {200, 404}
ConcContentTypes == {"application/json"}
ConcBodies       == {BodyJwt, BodyNotFound}

\* ClientSession.__aexit__ run by invocation c closes the session's connector,
\* and with it the connection of every other invocation still awaiting its
\* response.
ConnectorClose(fs, c) ==
    [d \in DOMAIN fs |->
        IF d # c /\ fs[d].pc = "awaiting" THEN [fs[d] EXCEPT !.lost = TRUE]
        ELSE fs[d]]

\* Invocation c begins and runs to "await getattr(http, method)(...)".
Start(c) ==
    /\ flights[c].pc = "idle"
    /\ \E route \in Routes, method \in ConcMethods :
        LET a == Args(route, method, NoData, NoFlag)
            s == FireRequestStart(key, closed, a)
        IN /\ flights' = [flights EXCEPT ![c] =
                              [pc |-> s.pc, args |-> a, sent |-> s.sent,
                               resp |-> NoResp, outcome |-> s.outcome,
                               lost |-> FALSE]]
           /\ closed' = s.closed
    /\ ncalls' = ncalls + 1
    /\ UNCHANGED <<json_deserialize, key, de_json, pc, args, sent, resp, outcome,
                   adapter, result>>

\* The response to invocation c's request arrives on its connection.
Arrive(c) ==
    /\ flights[c].pc = "awaiting"
    /\ ~flights[c].lost
    /\ \E status \in ConcStatuses, content_type \in ConcContentTypes,
          body \in ConcBodies :
        flights' = [flights EXCEPT
                      ![c].resp = [status |-> status,
                                   content_type |-> content_type,
                                   body |-> body],
                      ![c].pc = "received"]
    /\ UNCHANGED <<json_deserialize, key, de_json, closed, ncalls, pc, args, sent,
                   resp, outcome, adapter, result>>

\* Invocation c is resumed with its response, runs to its end and leaves
\* the "async with" block.
Resume(c) ==
    /\ flights[c].pc = "received"
    /\ flights' = ConnectorClose(
                     [flights EXCEPT
                        ![c].outcome = HandleResponse(de_json,
                                          StrLower(flights[c].args.method),
                                          flights[c].args.route,
                                          flights[c].resp),
                        ![c].pc = "done"], c)
    /\ closed' = SessionAfterExit(closed)
    /\ UNCHANGED <<json_deserialize, key, de_json, ncalls, pc, args, sent,
                   resp, outcome, adapter, result>>

\* Invocation c is resumed on a connection that was closed under it: the
\* await raises and the exception leaves the "async with" block.
Dropped(c) ==
    /\ flights[c].pc = "awaiting"
    /\ flights[c].lost
    /\ flights' = ConnectorClose(
                     [flights EXCEPT
                        ![c].outcome = Raise("ClientConnectionError"),
                        ![c].pc = "done"], c)
    /\ closed' = SessionAfterExit(closed)
    /\ UNCHANGED <<json_deserialize, key, de_json, ncalls, pc, args, sent,
                   resp, outcome, adapter, result>>

-----------------------------------------------------------------------------
(* Specifications *)

\* The dispatcher: one client, its invocations one after the other.
Init ==
    /\ HttpInit
    /\ flights = NoFlights
    /\ id = NoneId /\ cpc = "new" /\ b64 = NoResult /\ decoded = NoResult
    /\ reencoded = NoResult
    /\ inst = NoInst /\ domain = NotRead

Next ==
    \/ Call /\ UNCHANGED <<codecVars, flights, instVars>>
    \/ CallLogin /\ UNCHANGED <<codecVars, flights, instVars>>
    \/ CallAdapter /\ UNCHANGED <<codecVars, flights, instVars>>
    \/ Respond /\ UNCHANGED <<codecVars, flights, instVars>>
    \/ ConnectionFails /\ UNCHANGED <<codecVars, flights, instVars>>
    \/ Finish /\ UNCHANGED <<codecVars, flights, instVars>>

Spec == Init /\ [][Next]_vars

\* The codec: one object, encoded and decoded back.
InitCodec ==
    /\ CodecInit
    /\ json_deserialize = "None" /\ key = PyNone /\ de_json = OrjsonLoads
    /\ closed = FALSE /\ ncalls = 0
    /\ pc = "idle" /\ args = NoArgs /\ sent = <<>> /\ resp = NoResp
    /\ outcome = NoOutcome /\ adapter = "" /\ result = NoOutcome
    /\ flights = NoFlights /\ caller_data = NoData
    /\ inst = NoInst /\ domain = NotRead

NextCodec ==
    \/ Encode /\ UNCHANGED <<httpVars, instVars>>
    \/ Decode /\ UNCHANGED <<httpVars, instVars>>

SpecCodec == InitCodec /\ [][NextCodec]_vars

\* The codec from the other side: a short code is decoded and the result
\* encoded again.
InitCode ==
    /\ CodeInit
    /\ json_deserialize = "None" /\ key = PyNone /\ de_json = OrjsonLoads
    /\ closed = FALSE /\ ncalls = 0
    /\ pc = "idle" /\ args = NoArgs /\ sent = <<>> /\ resp = NoResp
    /\ outcome = NoOutcome /\ adapter = "" /\ result = NoOutcome
    /\ flights = NoFlights /\ caller_data = NoData
    /\ inst = NoInst /\ domain = NotRead

NextCode ==
    \/ Decode /\ UNCHANGED <<httpVars, instVars>>
    \/ ReEncode /\ UNCHANGED <<httpVars, instVars>>

SpecCode == InitCode /\ [][NextCode]_vars

\* An instance-bound record whose instance_domain_ is read.
InitInst ==
    /\ inst \in Insts
    /\ domain = NotRead
    /\ id = NoneId /\ cpc = "new" /\ b64 = NoResult /\ decoded = NoResult
    /\ reencoded = NoResult
    /\ json_deserialize = "None" /\ key = PyNone /\ de_json = OrjsonLoads
    /\ closed = FALSE /\ ncalls = 0
    /\ pc = "idle" /\ args = NoArgs /\ sent = <<>> /\ resp = NoResp
    /\ outcome = NoOutcome /\ adapter = "" /\ result = NoOutcome
    /\ flights = NoFlights /\ caller_data = NoData

NextInst ==
    \/ ReadDomain /\ UNCHANGED <<codecVars, httpVars>>

SpecInst == InitInst /\ [][NextInst]_vars

\* One client, MaxInFlight invocations of _fire_request interleaved.
InitConc ==
    /\ key \in Keys
    /\ json_deserialize = "None"
    /\ de_json = InitDeJson(json_deserialize)
    /\ closed = FALSE /\ ncalls = 0
    /\ pc = "idle" /\ args = NoArgs /\ sent = <<>> /\ resp = NoResp
    /\ outcome = NoOutcome /\ adapter = "" /\ result = NoOutcome
    /\ flights = [c \in Flights |-> IdleFlight] /\ caller_data = NoData
    /\ id = NoneId /\ cpc = "new" /\ b64 = NoResult /\ decoded = NoResult
    /\ reencoded = NoResult
    /\ inst = NoInst /\ domain = NotRead

NextConc ==
    \/ \E c \in Flights : Start(c) /\ UNCHANGED <<codecVars, instVars, caller_data>>
    \/ \E c \in Flights : Arrive(c) /\ UNCHANGED <<codecVars, instVars, caller_data>>
    \/ \E c \in Flights : Resume(c) /\ UNCHANGED <<codecVars, instVars, caller_data>>
    \/ \E c \in Flights : Dropped(c) /\ UNCHANGED <<codecVars, instVars, caller_data>>

SpecConc == InitConc /\ [][NextConc]_vars

-----------------------------------------------------------------------------
(* Properties *)

\* An invocation has ended having received a response.
Responded == pc = "done" /\ resp.status # 0

\* The request of the current invocation is on the wire, built from a mapping.
SentFromDict == Len(sent) = 1 /\ args.data.t = "dict"

\* The entries of the caller's mapping that filtering keeps.
KeptKeys == {k \in DOMAIN args.data.items :
                args.data.items[k].t # "NoneType" /\ k # "self"}

HasToken == key.t # "NoneType"

\* C1: round trip of the identifier codec: for every identifier x in
\* [0, 2^32 - 1], id_b64_ yields a short code and b64_to_id of that code is x.
C1_RoundTrip ==
    InRange(id) =>
        /\ cpc # "new" => b64.ok
        /\ cpc = "decoded" => decoded.ok /\ decoded.val = id

\* C1 witness: an identifier with a non-zero high limb whose code lost a
\* trailing "A" has been encoded and decoded back to itself.
C1_Witness ==
    /\ cpc = "decoded" /\ InRange(id) /\ id.hi > 0
    /\ Len(b64.val) = 5
    /\ decoded.ok /\ decoded.val = id

\* C2 as stated: the form on the wire holds exactly the caller's entries whose
\* value is not None and whose key is not "self", each with the caller's
\* value, plus the auth entry when a token is configured.
C2_Original ==
    SentFromDict =>
        LET form == sent[1].form IN
        /\ \A k \in KeptKeys : k \in DOMAIN form /\ form[k] = args.data.items[k]
        /\ \A k \in DOMAIN form :
              k \in KeptKeys \/ (k = "auth" /\ HasToken /\ form[k] = key)
        /\ HasToken => "auth" \in DOMAIN form

\* C2 amended: the form on the wire holds exactly the caller's entries whose
\* value is not None and whose key is not "self", each with the caller's
\* value, except that when a token is configured the entry "auth" is present
\* and carries the token in place of any caller entry of that name; no
\* None-valued entry and no "self" entry is sent.
C2_Filtering ==
    SentFromDict =>
        LET form == sent[1].form IN
        /\ DOMAIN form = KeptKeys \cup (IF HasToken THEN {"auth"} ELSE {})
        /\ \A k \in DOMAIN form :
              form[k] = IF k = "auth" /\ HasToken THEN key ELSE args.data.items[k]
        /\ \A k \in DOMAIN form : form[k].t # "NoneType" /\ k # "self"

\* C2 witness: a mapping with a kept entry, a "self" entry and a caller's
\* "auth" string went out from a client with a token.
C2_Witness ==
    /\ SentFromDict /\ HasToken
    /\ DOMAIN args.data.items = {"a", "self", "auth"}
    /\ args.data.items["auth"].t = "str"
    /\ DOMAIN sent[1].form = {"a", "auth"}

\* C3: whenever the client's key is not None, every request sent carries
\* form["auth"] equal to the key, whatever the caller's mapping contains.
C3_AuthInjected ==
    HasToken =>
        \A i \in 1..Len(sent) :
            "auth" \in DOMAIN sent[i].form /\ sent[i].form["auth"] = key

\* C3 witness: a request went out from a client with a token although the
\* caller's mapping had an entry "auth" whose value is None.
C3_Witness ==
    /\ SentFromDict /\ HasToken
    /\ "auth" \in DOMAIN args.data.items
    /\ args.data.items["auth"].t = "NoneType"
    /\ sent[1].form["auth"] = key

\* The remote error code of a response: the string under "error" of its JSON body.
RemoteError ==
    LET parsed == CallLoads(de_json, resp.body) IN
    IF resp.content_type = "application/json" /\ parsed.ok
       /\ parsed.val.t = "dict" /\ "error" \in DOMAIN parsed.val.items
       /\ parsed.val.items["error"].t = "str"
    THEN Ok(parsed.val.items["error"].v)
    ELSE Failed("")

\* C4: for every non-200 response whose body is JSON with an "error" field e,
\* a LemmyError is raised whose error field equals e as received and whose
\* message holds the status and the uppercased code.
C4_StructuredError ==
    (Responded /\ resp.status # 200 /\ RemoteError.ok) =>
        /\ outcome.kind = "raise" /\ outcome.exc = "LemmyError"
        /\ outcome.error = PyStr(RemoteError.val)
        /\ outcome.message.status = resp.status
        /\ outcome.message.error = StrUpper(RemoteError.val)

C6_OnlyLemmyError ==
    (Responded /\ resp.status # 200) =>
        outcome.kind = "raise" /\ outcome.exc = "LemmyError"

\* C7: no value is returned for a response whose status is not 200.
C7_Non200NeverReturns ==
    /\ (Responded /\ resp.status # 200) => outcome.kind = "raise"
    /\ (pc = "done" /\ outcome.kind = "return") => resp.status = 200

\* C7 witness: a 201 response with a JSON error body ended in a LemmyError.
C7_Witness ==
    /\ Responded /\ resp.status = 201
    /\ resp.content_type = "application/json" /\ resp.body = BodyNotFound
    /\ outcome.kind = "raise" /\ outcome.exc = "LemmyError"

\* The deserializer the client is to use: the one passed, else orjson.loads.
ClientLoads == IF json_deserialize = "None" THEN OrjsonLoads ELSE json_deserialize

C9_ExactlyOneRequest ==
    (pc = "done" /\ args.data.t # "typing.Optional") => Len(sent) = 1

\* C10: after a dispatch call has returned or raised, the session supplied
\* at construction is still open.
C10_SessionStaysOpen ==
    pc = "done" => ~closed

\* C11: in every interleaving of concurrent invocations on one client, an
\* invocation that sent its request ends with the outcome determined by its
\* own response; it is never failed by the completion of another.
C11_IndependentOutcomes ==
    \A c \in DOMAIN flights :
        (flights[c].pc = "done" /\ Len(flights[c].sent) = 1) =>
            /\ ~flights[c].lost
            /\ flights[c].outcome =
                 HandleResponse(de_json, StrLower(flights[c].args.method),
                                flights[c].args.route, flights[c].resp)

\* The spellings of GET in every letter case.
AnyCaseGet == {<<g, e, t>> : g \in {"G", "g"}, e \in {"E", "e"}, t \in {"T", "t"}}

\* The serialization the default rule gives the current invocation.
DefaultMode == IF args.method \in AnyCaseGet THEN "params" ELSE "json"

\* C12: called with form_in_params=None, _fire_request sends the form as
\* query parameters when the method is GET in any letter case, and as a JSON
\* body when it is POST or PUT.
C12_NoneFlagFollowsMethod ==
    (Len(sent) = 1 /\ args.form_in_params = NoFlag) =>
        sent[1].mode = DefaultMode

C12_Witness ==
    /\ Len(sent) = 1
    /\ args.form_in_params = NoFlag
    /\ args.method = Get
    /\ sent[1].mode = "params"

\* C13: called without a form_in_params argument, _fire_request sends the
\* form as query parameters exactly when the method is GET, and as a JSON
\* body for POST and PUT.
C13_OmittedFlagFollowsMethod ==
    (Len(sent) = 1 /\ args.form_in_params = DefaultFormInParams) =>
        sent[1].mode = DefaultMode

\* The login adapter's invocation has received a response.
LoginResponded == adapter = "login" /\ Responded

\* The body of the response as the client's deserializer decodes it.
DecodedBody == RespJson(resp, de_json)

\* C14: on a 200 response whose decoded body is an object with field jwt,
\* login returns the value of that field, a bare string and not the object;
\* on a non-200 response it raises the dispatcher's error and returns nothing.
C14_LoginUnwrapsToken ==
    LoginResponded =>
        /\ (/\ resp.status = 200
            /\ DecodedBody.ok
            /\ DecodedBody.val.t = "dict"
            /\ "jwt" \in DOMAIN DecodedBody.val.items)
           => /\ result.kind = "return"
              /\ result.value = DecodedBody.val.items["jwt"]
              /\ result.value.t = "str"
        /\ resp.status # 200
           => /\ result.kind = "raise"
              /\ outcome.kind = "raise"
              /\ result = outcome

C14_Witness ==
    /\ LoginResponded
    /\ resp.status = 200
    /\ resp.body = BodyJwt
    /\ result.kind = "return"
    /\ result.value = PyStr(<<"a","b","c","1","2","3">>)

\* C19: every request goes to the path "/api/v3" followed by the route given
\* to the dispatcher, whatever the adapter, the method and the
\* serialization mode.
C19_ApiPrefix ==
    \A i \in 1..Len(sent) : sent[i].url = <<"/api/", "v3", args.route>>

C19_Witness ==
    /\ adapter = "login"
    /\ Len(sent) = 1
    /\ sent[1].verb = StrLower(POST)
    /\ sent[1].mode = "json"
    /\ sent[1].url = <<"/api/", "v3", "/user/login">>

\* C20: no step of a dispatch or adapter call, successful or failed, changes
\* the client's key: it stays the value given at construction, also when
\* login returns a new jwt.
C20_KeyReadOnly == [][key' = key]_vars

C20_Witness ==
    /\ LoginResponded
    /\ result.kind = "return"
    /\ result.value = PyStr(<<"a","b","c","1","2","3">>)
    /\ key = PyNone
    /\ "auth" \notin DOMAIN sent[1].form

Zero == IntOf(0, 0)

\* C15: encode(0) is the empty string and decode("") is 0.
C15_ZeroIsEmpty ==
    /\ (id = Zero /\ cpc # "new") => b64 = Ok(<<>>)
    /\ (b64 = Ok(<<>>) /\ cpc = "decoded") => decoded = Ok(Zero)

C15_Witness ==
    /\ id = Zero
    /\ cpc = "decoded"
    /\ b64 = Ok(<<>>)
    /\ decoded = Ok(Zero)

\* The short code at hand is made of characters of the URL-safe alphabet.
UrlSafe(s) == \A i \in 1..Len(s) : \E j \in 1..64 : UrlSafeAlphabet[j] = s[i]

\* The strings the codec is said to be a bijection onto.
ShortNoTrailingA(s) ==
    /\ Len(s) <= 6
    /\ UrlSafe(s)
    /\ (Len(s) > 0 => s[Len(s)] # "A")

\* Those of them whose sixth character, which carries the two high bits of
\* the fourth byte only, has its low four bits zero.
Canonical(s) ==
    /\ ShortNoTrailingA(s)
    /\ (Len(s) = 6 => B64Value(s[6]) % 16 = 0)

\* C16 as stated: every URL-safe string s of length at most 6 that does not
\* end in A satisfies encode(decode(s)) = s.
C16_Original ==
    (cpc = "reencoded" /\ ShortNoTrailingA(b64.val)) => reencoded = Ok(b64.val)

\* C16: the codec is a bijection between the integers in [0, 2^32-1] and the
\* URL-safe strings of length at most 6 that do not end in A and whose sixth
\* character, if any, has its low four bits zero: each such string decodes to
\* an integer of the range that encodes back to it, and every integer a
\* string decodes to is given back by decoding its code.
C16_Bijection ==
    /\ (cpc # "encoded" /\ Canonical(b64.val)) =>
            decoded.ok /\ InRange(decoded.val)
    /\ (cpc = "reencoded" /\ Canonical(b64.val)) => reencoded = Ok(b64.val)
    /\ (cpc = "reencoded" /\ reencoded.ok) => B64ToId(reencoded.val) = decoded

C16_Witness ==
    /\ cpc = "reencoded"
    /\ b64 = Ok(<<"_", "_", "_", "_", "_", "Q">>)
    /\ decoded = Ok(IntOf(65023, 65535))
    /\ reencoded = b64

\* C17: b64_to_id fails on a code with a character outside the URL-safe
\* alphabet instead of returning an integer.
C17_RejectsInvalid ==
    (cpc # "encoded" /\ ~UrlSafe(b64.val)) => ~decoded.ok

\* C18: id_b64_ yields a string for every id in [0, 2^32-1] and fails with
\* OverflowError, never a string, exactly when the id is negative or above
\* 2^32-1.
C18_FailsOnlyOutOfRange ==
    (cpc # "new" /\ id.t = "int") =>
        /\ InRange(id) => b64.ok
        /\ ~InRange(id) => (~b64.ok /\ b64.exc = "OverflowError")
        /\ b64.ok <=> (id.hi >= 0 /\ id.hi <= 65535)

C18_Witness ==
    /\ cpc = "encoded"
    /\ id = IntOf(65536, 0)
    /\ b64 = Failed("OverflowError")

\* The six 6-bit groups of the 32 bits of x taken least significant byte
\* first, the last group holding the two remaining bits followed by zeros.
RefSextets(x) ==
    LET b0 == x.lo % 256
        b1 == x.lo \div 256
        b2 == x.hi % 256
        b3 == x.hi \div 256
    IN << b0 \div 4, (b0 % 4) * 16 + b1 \div 16, (b1 % 16) * 4 + b2 \div 64,
          b2 % 64, b3 \div 4, (b3 % 4) * 16 >>

\* The reference encoding: the characters of the groups, without the padding
\* and without the trailing groups that are zero (the character A).
RefEncode(x) ==
    LET v == RefSextets(x)
        nonzero == {k \in 1..6 : v[k] # 0}
        n == IF nonzero = {} THEN 0 ELSE CHOOSE k \in nonzero : \A j \in nonzero : j <= k
    IN [i \in 1..n |-> UrlSafeAlphabet[v[i] + 1]]

\* C21: for every x in [0, 2^32-1], id_b64_ is the URL-safe base64 encoding
\* of the 4 little-endian bytes of x with trailing "=" and then trailing "A"
\* removed; it has at most 6 characters, all of the URL-safe alphabet, and
\* never ends in "A" or "=".
C21_EncodeReference ==
    (cpc # "new" /\ InRange(id)) =>
        /\ b64 = Ok(RefEncode(id))
        /\ Len(b64.val) <= 6
        /\ UrlSafe(b64.val)
        /\ Len(b64.val) > 0 => b64.val[Len(b64.val)] \notin {"A", "="}

C21_Witness ==
    /\ cpc = "encoded"
    /\ id = IntOf(256, 1)
    /\ b64 = Ok(<<"A", "Q", "A", "A", "A", "Q">>)

\* C22: for every string s of the URL-safe alphabet of length at most 6,
\* b64_to_id(s) is an integer in [0, 2^32-1] and equals b64_to_id of s
\* followed by k characters A, for every k with len(s) + k <= 6.
C22_DecodePadsWithA ==
    (cpc # "encoded" /\ UrlSafe(b64.val) /\ Len(b64.val) <= 6) =>
        /\ decoded.ok
        /\ InRange(decoded.val)
        /\ \A k \in 0..(6 - Len(b64.val)) :
              B64ToId(b64.val \o [i \in 1..k |-> "A"]) = decoded

C22_Witness ==
    /\ cpc = "decoded"
    /\ b64 = Ok(<<"_", "Q">>)
    /\ decoded = Ok(IntOf(0, 253))
    /\ B64ToId(<<"_", "Q", "A", "A", "A", "A">>) = decoded

\* C23: a client without a token adds no auth entry: the form sent is
\* exactly the filtered caller mapping (empty when no mapping is given), and
\* a caller's non-None auth entry goes out unchanged.
C23_NoTokenNoAuth ==
    (Len(sent) = 1 /\ ~HasToken) =>
        LET form == sent[1].form IN
        /\ args.data.t = "dict" =>
              /\ DOMAIN form = KeptKeys
              /\ \A k \in KeptKeys : form[k] = args.data.items[k]
        /\ args.data.t = "NoneType" => form = EmptyDict
        /\ "auth" \in DOMAIN form =>
              /\ args.data.t = "dict"
              /\ "auth" \in DOMAIN args.data.items
              /\ form["auth"] = args.data.items["auth"]

C23_Witness ==
    /\ SentFromDict /\ ~HasToken
    /\ DOMAIN args.data.items = {"a", "self", "auth"}
    /\ args.data.items["a"].t = "NoneType"
    /\ sent[1].form = [k \in {"auth"} |-> PyStr(<<"c","a","l","l","e","r">>)]

\* C24: every public method goes through a handler, so a GET carries its
\* form as query parameters and a POST or PUT carries it as a JSON body.
C24_AdaptersFollowDefaultRule ==
    (adapter # "" /\ Len(sent) = 1) =>
        /\ sent[1].verb \in {StrLower(GET), StrLower(POST), StrLower(PUT)}
        /\ sent[1].verb = StrLower(GET) => sent[1].mode = "params"
        /\ sent[1].verb \in {StrLower(POST), StrLower(PUT)} => sent[1].mode = "json"

C24_Witness ==
    /\ adapter = "search"
    /\ Len(sent) = 1
    /\ sent[1].verb = <<"g", "e", "t">>
    /\ sent[1].mode = "params"

\* A 200 response has arrived whose body the client's deserializer rejects.
MalformedOn200 ==
    Responded /\ resp.status = 200 /\ ~CallLoads(de_json, resp.body).ok

C26_FalsyKept ==
    SentFromDict =>
        \A k \in DOMAIN args.data.items :
            (/\ k \notin {"self", "auth"}
             /\ args.data.items[k].t # "NoneType"
             /\ ~ValueTruthy(args.data.items[k]))
            => /\ k \in DOMAIN sent[1].form
               /\ sent[1].form[k] = args.data.items[k]

C26_Witness ==
    /\ adapter = "delete_post"
    /\ Len(sent) = 1
    /\ "deleted" \in DOMAIN sent[1].form
    /\ sent[1].form["deleted"] = PyFalse

\* C27: the first call on a client made without a data mapping, omitted or
\* None, sends one request whose form is empty apart from the auth entry of
\* a client with a token.
C27_NoDataSendsEmptyForm ==
    (pc # "idle" /\ ncalls = 1 /\ args.data.t # "dict") =>
        /\ Len(sent) = 1
        /\ sent[1].form = IF HasToken THEN [k \in {"auth"} |-> key] ELSE EmptyDict

\* C28: the LemmyError raised on a non-200 response is made of the status,
\* the remote error code, the method and the route alone, so it is the same
\* for two clients that differ in their key only.
C28_NoTokenInErrors ==
    (Responded /\ resp.status # 200 /\ outcome.exc = "LemmyError") =>
        LET m == outcome.message IN
        /\ m.status = resp.status
        /\ IF resp.content_type = "application/json"
           THEN /\ RemoteError.ok
                /\ m.error = StrUpper(RemoteError.val)
                /\ outcome.error = PyStr(StrUpper(RemoteError.val))
                /\ m.method = <<>> /\ m.route = ""
                /\ m.template = "[{resp.status}] Lemmy API returned {error} exception"
           ELSE /\ m.error = <<>>
                /\ outcome.error = PyNone
                /\ m.method = StrLower(args.method) /\ m.route = args.route
                /\ m.template =
                     "[{resp.status}] Generic error encountered while trying to {method} {route}"

C28_Witness ==
    /\ Responded /\ resp.status = 404 /\ resp.content_type = "text/html"
    /\ HasToken
    /\ sent[1].form["auth"] = key
    /\ outcome.exc = "LemmyError"
    /\ outcome.error = PyNone

\* C29: the mapping the caller passed has the same keys and values after the
\* call as before it.
C29_CallerMappingUntouched ==
    pc # "idle" => caller_data = args.data

C29_Witness ==
    /\ pc = "done" /\ HasToken
    /\ SentFromDict
    /\ "self" \in DOMAIN args.data.items
    /\ "auth" \notin DOMAIN args.data.items
    /\ "auth" \in DOMAIN sent[1].form
    /\ caller_data = args.data

\* The host the actor id of the record at hand was written with, as
\* urlparse gives it: lower case, and None when the id has no "//" part or
\* an empty host.
WrittenHost ==
    IF inst.actor_id.t = "NoneType" \/ inst.parts.host = <<>>
       \/ Len(inst.parts.prefix) < 2
    THEN PyNone
    ELSE PyStr(StrLower(inst.parts.host))

\* C30: instance_domain_ is None whenever local is true, and otherwise the
\* host name parsed from actor_id; a local record never gets a host name.
C30_InstanceDomain ==
    domain.read =>
        /\ inst.local = PyTrue => domain.val = PyNone
        /\ inst.local # PyTrue => domain.val = WrittenHost

C30_Witness ==
    /\ domain.read
    /\ inst.local = PyFalse
    /\ inst.actor_id = PyStr(<<"h","t","t","p","s",":","/","/","u","@","A","b",".","C",
                               ":","8","5","3","6","/","u","/","b","o","b">>)
    /\ domain.val = PyStr(<<"a","b",".","c">>)

=============================================================================
